---- MODULE Spec2Model ----
(***************************************************************************)
(* Grid World (src/script_1.py, the grid_world_code template) and the A*   *)
(* engine (src/astar_sample.py) of the autonomous delivery agent.          *)
(*                                                                         *)
(* A cell is the pair <<x, y>>.  The numpy array grid[y, x] is the         *)
(* function grid[<<x, y>>].  A Node object is identified with the key      *)
(* under which all_nodes holds it (search creates exactly one Node per     *)
(* position), so a reference to a Node is its position.  float('inf') is   *)
(* the sentinel INF with saturating addition.  computation_time (wall      *)
(* clock) is not modelled.                                                 *)
(***************************************************************************)
EXTENDS Integers, Sequences, FiniteSets, TLC

VARIABLES
    width, height,        \* GridWorld.width, GridWorld.height
    grid,                 \* GridWorld.grid: cell -> CellType code
    gw_start, gw_goal,    \* GridWorld.start, GridWorld.goal
    dynamic_obstacles,    \* GridWorld.dynamic_obstacles: time -> list of cells
    ret,                  \* the last query call and what it returned
    pc,                   \* position of the caller / of search
    start, goal, current_time,   \* arguments of the running search
    open_set, closed_set, all_nodes, nodes_expanded,   \* locals of search
    result,               \* the SearchResult returned
    prev_result,          \* the SearchResult of the preceding call of search
    added,                \* the dynamic obstacle scheduled between the two calls
    self_heuristic,       \* AStarSearch.heuristic: the name of the callable
    file,                 \* the snapshot file: a list of lines of tokens
    loaded                \* what load_from_file returned or raised

gridvars == <<width, height, grid, gw_start, gw_goal, dynamic_obstacles>>
searchvars == <<pc, start, goal, current_time, open_set, closed_set,
                all_nodes, nodes_expanded, result, prev_result, added,
                self_heuristic>>
iovars == <<file, loaded>>
vars == <<width, height, grid, gw_start, gw_goal, dynamic_obstacles, ret,
          pc, start, goal, current_time, open_set, closed_set, all_nodes,
          nodes_expanded, result, prev_result, added, self_heuristic,
          file, loaded>>

(***************************************************************************)
(* Bounds of the model.                                                    *)
(***************************************************************************)
Width == 3        \* the width handed to GridWorld
MaxCalls == 1     \* mutator calls made on one Grid World

\* the height handed to GridWorld
Height == 2

(***************************************************************************)
(* Program constants.                                                      *)
(***************************************************************************)
FREE == 0
OBSTACLE == 1
START == 2
GOAL == 3
INF == 999

None == << >>

\* time steps: 0, the default time of is_obstacle, and one other time step
Times == {0, 1}

Cells(w, h) == (0..(w - 1)) \X (0..(h - 1))

\* The cells handed to the operations: every grid cell and one cell beyond
\* each of the four borders.
Probe(w, h) ==
    Cells(w, h) \cup {<<-1, 0>>, <<w, 0>>, <<0, -1>>, <<0, h>>}

Contains(seq, e) == \E i \in 1..Len(seq) : seq[i] = e

\* float addition with float('inf')
Plus(a, b) == IF a = INF \/ b = INF THEN INF ELSE a + b

Abs(n) == IF n < 0 THEN -n ELSE n

\* F(v), with v evaluated once however often F uses it
Once(v, F(_)) == CHOOSE r \in {F(x) : x \in {v}} : TRUE

(***************************************************************************)
(* GridWorld                                                               *)
(***************************************************************************)
is_valid_position(x, y) == 0 <= x /\ x < width /\ 0 <= y /\ y < height

\* is_obstacle with the time step ignored: a cell scheduled at any time counts
is_obstacle_any_time(x, y, time) ==
    IF ~is_valid_position(x, y) THEN TRUE
    ELSE IF grid[<<x, y>>] = OBSTACLE THEN TRUE
    ELSE \E t \in DOMAIN dynamic_obstacles :
            Contains(dynamic_obstacles[t], <<x, y>>)

is_obstacle(x, y, time) ==
    IF ~is_valid_position(x, y) THEN TRUE
    ELSE IF grid[<<x, y>>] = OBSTACLE THEN TRUE
    ELSE IF time \in DOMAIN dynamic_obstacles
         THEN Contains(dynamic_obstacles[time], <<x, y>>)
    ELSE FALSE

\* directions taken from an unordered collection: the order differs from one
\* call of search to the next
directions_unordered ==
    IF prev_result = None
    THEN << <<0, 1>>, <<1, 0>>, <<0, -1>>, <<-1, 0>> >>
    ELSE << <<-1, 0>>, <<0, -1>>, <<1, 0>>, <<0, 1>> >>

directions == << <<0, 1>>, <<1, 0>>, <<0, -1>>, <<-1, 0>> >>

RECURSIVE neighbors_from(_, _, _, _)
neighbors_from(i, x, y, time) ==
    IF i > Len(directions) THEN << >>
    ELSE LET nx == x + directions[i][1]
             ny == y + directions[i][2]
             rest == neighbors_from(i + 1, x, y, time)
         IN  IF is_valid_position(nx, ny) /\ ~is_obstacle(nx, ny, time)
             THEN << <<nx, ny>> >> \o rest
             ELSE rest

\* get_neighbors with the time step not passed on to is_obstacle
get_neighbors_default_time(x, y, time) == neighbors_from(1, x, y, 0)

get_neighbors(x, y, time) == neighbors_from(1, x, y, time)

get_terrain_cost(x, y) == IF is_obstacle(x, y, 0) THEN INF ELSE 1

StaticCount == Cardinality({c \in DOMAIN grid : grid[c] = OBSTACLE})

\* grid[y, x] = code, under the bounds check of the mutators
mark(g, x, y, code) ==
    IF 0 <= x /\ x < width /\ 0 <= y /\ y < height
    THEN [g EXCEPT ![<<x, y>>] = code]
    ELSE g

RECURSIVE SumLen(_, _)
SumLen(d, ks) ==
    IF ks = {} THEN 0
    ELSE LET k == CHOOSE k \in ks : TRUE
         IN  Len(d[k]) + SumLen(d, ks \ {k})

DynamicCount == SumLen(dynamic_obstacles, DOMAIN dynamic_obstacles)

\* mutator calls that have left a mark on the Grid World
Calls == StaticCount + DynamicCount + (IF gw_start = None THEN 0 ELSE 1)

\* the body of the loop of add_dynamic_obstacle, on the dict d
dict_add(d, x, y, time) ==
    IF time \in DOMAIN d
    THEN [d EXCEPT ![time] = Append(@, <<x, y>>)]
    ELSE d @@ (time :> << <<x, y>> >>)

add_static_obstacle(x, y) ==
    /\ pc = "config" /\ ret = None
    /\ grid' = mark(grid, x, y, OBSTACLE)
    /\ ret' = None
    /\ UNCHANGED <<width, height, gw_start, gw_goal, dynamic_obstacles>>
    /\ UNCHANGED searchvars
    /\ UNCHANGED iovars

add_dynamic_obstacle(x, y, time) ==
    /\ pc = "config" /\ ret = None
    /\ dynamic_obstacles' = dict_add(dynamic_obstacles, x, y, time)
    /\ ret' = None
    /\ UNCHANGED <<width, height, grid, gw_start, gw_goal>>
    /\ UNCHANGED searchvars
    /\ UNCHANGED iovars

set_start_goal(s, g) ==
    /\ pc = "config" /\ ret = None
    /\ gw_start = None
    /\ gw_start' = s
    /\ gw_goal' = g
    /\ grid' = mark(mark(grid, s[1], s[2], START), g[1], g[2], GOAL)
    /\ ret' = None
    /\ UNCHANGED <<width, height, dynamic_obstacles>>
    /\ UNCHANGED searchvars
    /\ UNCHANGED iovars

call_is_obstacle(x, y, time) ==
    /\ pc = "config" /\ ret = None
    /\ ret' = [op |-> "is_obstacle", x |-> x, y |-> y, time |-> time,
               value |-> is_obstacle(x, y, time)]
    /\ UNCHANGED gridvars
    /\ UNCHANGED searchvars
    /\ UNCHANGED iovars

call_get_neighbors(x, y, time) ==
    /\ pc = "config" /\ ret = None
    /\ ret' = [op |-> "get_neighbors", x |-> x, y |-> y, time |-> time,
               value |-> get_neighbors(x, y, time)]
    /\ UNCHANGED gridvars
    /\ UNCHANGED searchvars
    /\ UNCHANGED iovars

call_get_terrain_cost(x, y) ==
    /\ pc = "config" /\ ret = None
    /\ ret' = [op |-> "get_terrain_cost", x |-> x, y |-> y, time |-> 0,
               value |-> get_terrain_cost(x, y)]
    /\ UNCHANGED gridvars
    /\ UNCHANGED searchvars
    /\ UNCHANGED iovars

(***************************************************************************)
(* The Grid World under its mutators and queries.  A query is the last     *)
(* call of a run: it changes nothing of the Grid World.                    *)
(***************************************************************************)
InitSearchLocals ==
    /\ start = None /\ goal = None /\ current_time = 0
    /\ open_set = << >> /\ closed_set = {} /\ all_nodes = << >>
    /\ nodes_expanded = 0 /\ result = None /\ prev_result = None
    /\ added = None

\* the default heuristic of AStarSearch; no snapshot file written or read
InitDefaults ==
    /\ self_heuristic = "manhattan_distance"
    /\ file = None /\ loaded = None

InitGrid ==
    /\ width = Width /\ height = Height
    /\ grid = [c \in Cells(Width, Height) |-> FREE]
    /\ gw_start = None /\ gw_goal = None
    /\ dynamic_obstacles = << >>
    /\ ret = None
    /\ pc = "config"
    /\ InitSearchLocals
    /\ InitDefaults

NextGrid ==
    \/ /\ Calls < MaxCalls
       /\ \E c \in Probe(width, height) : add_static_obstacle(c[1], c[2])
    \/ /\ Calls < MaxCalls
       /\ \E c \in Probe(width, height), t \in Times :
             add_dynamic_obstacle(c[1], c[2], t)
    \/ /\ Calls < MaxCalls
       /\ \E s \in Probe(width, height), g \in Probe(width, height) :
             set_start_goal(s, g)
    \/ \E c \in Probe(width, height), t \in Times :
          call_is_obstacle(c[1], c[2], t)
    \/ \E c \in Probe(width, height), t \in Times :
          call_get_neighbors(c[1], c[2], t)
    \/ \E c \in Probe(width, height) : call_get_terrain_cost(c[1], c[2])

SpecGrid == InitGrid /\ [][NextGrid]_vars

(***************************************************************************)
(* Node, Heuristics and the heap of heapq (a list of Node references       *)
(* ordered by Node.__lt__ on the nodes' present f_cost).                   *)
(***************************************************************************)
manhattan_distance(pos1, pos2) ==
    Abs(pos1[1] - pos2[1]) + Abs(pos1[2] - pos2[2])

f_cost(an, p) == Plus(an[p].g_cost, an[p].h_cost)

\* Node.__lt__
lt(an, a, b) == f_cost(an, a) < f_cost(an, b)

\* heapq._siftdown; positions are 0-based as in heapq, heap[pos + 1] is
\* the list element at pos
RECURSIVE siftdown_loop(_, _, _, _, _)
siftdown_loop(heap, startpos, pos, newitem, an) ==
    IF pos > startpos
    THEN LET parentpos == (pos - 1) \div 2
             parent == heap[parentpos + 1]
         IN  IF lt(an, newitem, parent)
             THEN siftdown_loop([heap EXCEPT ![pos + 1] = parent],
                                startpos, parentpos, newitem, an)
             ELSE [heap EXCEPT ![pos + 1] = newitem]
    ELSE [heap EXCEPT ![pos + 1] = newitem]

siftdown(heap, startpos, pos, an) ==
    siftdown_loop(heap, startpos, pos, heap[pos + 1], an)

\* the loop of heapq._siftup: bubble the smaller child up until a leaf
RECURSIVE siftup_loop(_, _, _, _, _)
siftup_loop(heap, pos, childpos, endpos, an) ==
    IF childpos < endpos
    THEN LET rightpos == childpos + 1
             c == IF rightpos < endpos
                     /\ ~lt(an, heap[childpos + 1], heap[rightpos + 1])
                  THEN rightpos ELSE childpos
         IN  siftup_loop([heap EXCEPT ![pos + 1] = heap[c + 1]],
                         c, 2 * c + 1, endpos, an)
    ELSE <<heap, pos>>

siftup(heap, pos, an) ==
    LET newitem == heap[pos + 1]
        r == siftup_loop(heap, pos, 2 * pos + 1, Len(heap), an)
    IN  siftdown([r[1] EXCEPT ![r[2] + 1] = newitem], pos, r[2], an)

heappush(heap, item, an) ==
    siftdown(Append(heap, item), 0, Len(heap), an)

heappop(heap, an) ==
    LET lastelt == heap[Len(heap)]
        rest == SubSeq(heap, 1, Len(heap) - 1)
    IN  IF rest # << >>
        THEN [item |-> rest[1],
              heap |-> siftup([rest EXCEPT ![1] = lastelt], 0, an)]
        ELSE [item |-> lastelt, heap |-> << >>]

(***************************************************************************)
(* AStarSearch                                                             *)
(***************************************************************************)
\* a caller-supplied heuristic that overestimates: not admissible
inflated_distance(pos1, pos2) == 5 * manhattan_distance(pos1, pos2)

\* a caller-supplied heuristic unrelated to the distance: neither admissible
\* nor consistent
scrambled_distance(pos1, pos2) ==
    (7 * Abs(pos1[1] - pos2[2]) + 3 * Abs(pos1[2] + pos2[1])) % 5

\* self.heuristic(a, b)
heuristic(a, b) ==
    IF self_heuristic = "manhattan_distance" THEN manhattan_distance(a, b)
    ELSE IF self_heuristic = "inflated_distance" THEN inflated_distance(a, b)
    ELSE scrambled_distance(a, b)

RECURSIVE reconstruct_from(_, _)
reconstruct_from(an, current) ==
    IF current = None THEN << >>
    ELSE Append(reconstruct_from(an, an[current].parent), current)

\* _reconstruct_path: the positions along the parent links, reversed
reconstruct_path(an, goal_node) == reconstruct_from(an, goal_node)

\* goal_result with the pop of the goal counted as an expansion
goal_result_counting_pop(an, current_node, ne) ==
    [path |-> reconstruct_path(an, current_node),
     cost |-> an[current_node].g_cost,
     nodes_expanded |-> ne + 1,
     success |-> TRUE]

\* the SearchResult returned when the goal is popped
goal_result(an, current_node, ne) ==
    [path |-> reconstruct_path(an, current_node),
     cost |-> an[current_node].g_cost,
     nodes_expanded |-> ne,
     success |-> TRUE]

\* the SearchResult returned when the open set is empty
no_path_result(ne) ==
    [path |-> << >>, cost |-> INF, nodes_expanded |-> ne, success |-> FALSE]

\* explore with an improvement that lowers g_cost and keeps the old parent
RECURSIVE explore_keeping_parent(_, _, _, _, _, _, _)
explore_keeping_parent(nbrs, i, cur, closed, an, os, g) ==
    IF i > Len(nbrs) THEN [all_nodes |-> an, open_set |-> os]
    ELSE LET neighbor_pos == nbrs[i]
             move_cost == get_terrain_cost(neighbor_pos[1], neighbor_pos[2])
             tentative_g_cost == Plus(an[cur].g_cost, move_cost)
         IN  IF neighbor_pos \in closed
             THEN explore_keeping_parent(nbrs, i + 1, cur, closed, an, os, g)
             ELSE IF neighbor_pos \in DOMAIN an
             THEN IF tentative_g_cost < an[neighbor_pos].g_cost
                  THEN LET an2 == [an EXCEPT
                                     ![neighbor_pos].g_cost = tentative_g_cost]
                       IN  Once(an2, LAMBDA a :
                           Once(heappush(os, neighbor_pos, a), LAMBDA o :
                                explore_keeping_parent(nbrs, i + 1, cur,
                                                       closed, a, o, g)))
                  ELSE explore_keeping_parent(nbrs, i + 1, cur, closed, an,
                                              os, g)
             ELSE LET an2 == an @@ (neighbor_pos :>
                                [position |-> neighbor_pos,
                                 g_cost |-> tentative_g_cost,
                                 h_cost |-> heuristic(neighbor_pos, g),
                                 parent |-> cur])
                  IN  Once(an2, LAMBDA a :
                      Once(heappush(os, neighbor_pos, a), LAMBDA o :
                           explore_keeping_parent(nbrs, i + 1, cur, closed,
                                                  a, o, g)))

\* the for loop over the neighbours of current_node, from the i-th on
RECURSIVE explore(_, _, _, _, _, _, _)
explore(nbrs, i, cur, closed, an, os, g) ==
    IF i > Len(nbrs) THEN [all_nodes |-> an, open_set |-> os]
    ELSE LET neighbor_pos == nbrs[i]
             move_cost == get_terrain_cost(neighbor_pos[1], neighbor_pos[2])
             tentative_g_cost == Plus(an[cur].g_cost, move_cost)
         IN  IF neighbor_pos \in closed
             THEN explore(nbrs, i + 1, cur, closed, an, os, g)
             ELSE IF neighbor_pos \in DOMAIN an
             THEN IF tentative_g_cost < an[neighbor_pos].g_cost
                  THEN LET an2 == [an EXCEPT
                                     ![neighbor_pos].g_cost = tentative_g_cost,
                                     ![neighbor_pos].parent = cur]
                       IN  Once(an2, LAMBDA a :
                           Once(heappush(os, neighbor_pos, a), LAMBDA o :
                                explore(nbrs, i + 1, cur, closed, a, o, g)))
                  ELSE explore(nbrs, i + 1, cur, closed, an, os, g)
             ELSE LET an2 == an @@ (neighbor_pos :>
                                [position |-> neighbor_pos,
                                 g_cost |-> tentative_g_cost,
                                 h_cost |-> heuristic(neighbor_pos, g),
                                 parent |-> cur])
                  IN  Once(an2, LAMBDA a :
                      Once(heappush(os, neighbor_pos, a), LAMBDA o :
                           explore(nbrs, i + 1, cur, closed, a, o, g)))

\* search, up to the while loop
enter_search(s, g, t) ==
    LET start_node == [position |-> s, g_cost |-> 0,
                       h_cost |-> heuristic(s, g), parent |-> None]
        an == (s :> start_node)
    IN  /\ start' = s /\ goal' = g /\ current_time' = t
        /\ all_nodes' = an
        /\ open_set' = heappush(<< >>, s, an)
        /\ closed_set' = {}
        /\ nodes_expanded' = 0
        /\ result' = None
        /\ pc' = "loop"

search_begin(s, g, t) ==
    /\ pc = "idle"
    /\ enter_search(s, g, t)
    /\ UNCHANGED <<prev_result, added, ret>>
    /\ UNCHANGED gridvars
    /\ UNCHANGED <<self_heuristic, file, loaded>>

\* one iteration of the while loop that pops the goal and returns
search_found ==
    /\ pc = "loop" /\ open_set # << >>
    /\ LET popped == heappop(open_set, all_nodes)
           current_node == popped.item
       IN  /\ current_node = goal
           /\ open_set' = popped.heap
           /\ result' = goal_result(all_nodes, current_node, nodes_expanded)
    /\ pc' = "done"
    /\ UNCHANGED <<start, goal, current_time, closed_set, all_nodes,
                   nodes_expanded, prev_result, added, ret>>
    /\ UNCHANGED gridvars
    /\ UNCHANGED <<self_heuristic, file, loaded>>

\* one iteration of the while loop that expands the popped node
search_expand ==
    /\ pc = "loop" /\ open_set # << >>
    /\ \E popped \in {heappop(open_set, all_nodes)} :
       \E current_node \in {popped.item} :
       \E closed \in {closed_set \cup {current_node}} :
       \E nbrs \in {get_neighbors(current_node[1], current_node[2],
                                  current_time)} :
       \E after \in {explore(nbrs, 1, current_node, closed, all_nodes,
                             popped.heap, goal)} :
           /\ current_node # goal
           /\ closed_set' = closed
           /\ nodes_expanded' = nodes_expanded + 1
           /\ all_nodes' = after.all_nodes
           /\ open_set' = after.open_set
    /\ UNCHANGED <<pc, start, goal, current_time, result, prev_result,
                   added, ret>>
    /\ UNCHANGED gridvars
    /\ UNCHANGED <<self_heuristic, file, loaded>>

\* a while loop that goes on when the open set is empty
search_fail_spinning ==
    /\ pc = "loop" /\ open_set = << >>
    /\ UNCHANGED vars

\* the while loop ends on an empty open set: no path found
search_fail ==
    /\ pc = "loop" /\ open_set = << >>
    /\ result' = no_path_result(nodes_expanded)
    /\ pc' = "done"
    /\ UNCHANGED <<start, goal, current_time, open_set, closed_set,
                   all_nodes, nodes_expanded, prev_result, added, ret>>
    /\ UNCHANGED gridvars
    /\ UNCHANGED <<self_heuristic, file, loaded>>

\* the caller calls search a second time with the same arguments
search_repeat ==
    /\ pc = "done" /\ prev_result = None
    /\ prev_result' = result
    /\ enter_search(start, goal, current_time)
    /\ UNCHANGED <<added, ret>>
    /\ UNCHANGED gridvars
    /\ UNCHANGED <<self_heuristic, file, loaded>>

\* the caller schedules one more dynamic obstacle and calls search again
\* with the same arguments
search_after_add_dynamic(x, y, time) ==
    /\ pc = "done" /\ prev_result = None
    /\ dynamic_obstacles' = dict_add(dynamic_obstacles, x, y, time)
    /\ added' = <<x, y, time>>
    /\ prev_result' = result
    /\ enter_search(start, goal, current_time)
    /\ UNCHANGED <<width, height, grid, gw_start, gw_goal, ret>>
    /\ UNCHANGED <<self_heuristic, file, loaded>>

(***************************************************************************)
(* The Grid Worlds a caller can have built before it searches.             *)
(***************************************************************************)
\* <<grid, dynamic_obstacles>> after at most n calls of add_static_obstacle
\* and add_dynamic_obstacle on a new GridWorld(w, h)
RECURSIVE Worlds(_, _, _)
Worlds(w, h, n) ==
    IF n = 0 THEN {<<[c \in Cells(w, h) |-> FREE], << >> >>}
    ELSE LET fewer == Worlds(w, h, n - 1)
         IN  fewer
             \cup {<<[W[1] EXCEPT ![c] = OBSTACLE], W[2]>> :
                      W \in fewer, c \in Cells(w, h)}
             \cup {<<W[1], dict_add(W[2], c[1], c[2], t)>> :
                      W \in fewer, c \in Cells(w, h), t \in Times}

InitSearch ==
    /\ width = Width /\ height = Height
    /\ \E W \in Worlds(Width, Height, MaxCalls) :
          grid = W[1] /\ dynamic_obstacles = W[2]
    /\ gw_start = None /\ gw_goal = None
    /\ ret = None
    /\ pc = "idle"
    /\ InitSearchLocals
    /\ InitDefaults

NextSearch ==
    \/ \E s \in Probe(width, height), g \in Probe(width, height),
          t \in Times : search_begin(s, g, t)
    \/ search_found
    \/ search_expand
    \/ search_fail

SpecSearch == InitSearch /\ [][NextSearch]_vars

(***************************************************************************)
(* One search call run to its end, with any heuristic the caller may hand  *)
(* to AStarSearch.  search is synchronous: once called, its loop takes its *)
(* next iteration.                                                         *)
(***************************************************************************)
HeuristicNames ==
    {"manhattan_distance", "inflated_distance", "scrambled_distance"}

InitTerm ==
    /\ width = Width /\ height = Height
    /\ \E W \in Worlds(Width, Height, MaxCalls) :
          grid = W[1] /\ dynamic_obstacles = W[2]
    /\ gw_start = None /\ gw_goal = None
    /\ ret = None
    /\ pc = "idle"
    /\ InitSearchLocals
    /\ self_heuristic \in HeuristicNames
    /\ file = None /\ loaded = None

search_loop == search_found \/ search_expand \/ search_fail

SpecTerm == InitTerm /\ [][NextSearch]_vars /\ WF_vars(search_loop)

(***************************************************************************)
(* Searches with the default heuristic toward the corner (0, 0) of a       *)
(* square Grid World with static obstacles: a grid large enough for a cell *)
(* to be reached first by a detour and then by a cheaper route.            *)
(***************************************************************************)
Side == 4

\* the grids left by at most n calls of add_static_obstacle
RECURSIVE StaticGrids(_, _, _)
StaticGrids(w, h, n) ==
    IF n = 0 THEN {[c \in Cells(w, h) |-> FREE]}
    ELSE LET fewer == StaticGrids(w, h, n - 1)
         IN  fewer \cup {[G EXCEPT ![c] = OBSTACLE] :
                            G \in fewer, c \in Cells(w, h)}

InitHeap ==
    /\ width = Side /\ height = Side
    /\ grid \in StaticGrids(Side, Side, MaxCalls + 1)
    /\ dynamic_obstacles = << >>
    /\ gw_start = None /\ gw_goal = None
    /\ ret = None
    /\ pc = "idle"
    /\ InitSearchLocals
    /\ InitDefaults

NextHeap ==
    \/ \E s \in Cells(width, height) : search_begin(s, <<0, 0>>, 0)
    \/ search_found
    \/ search_expand
    \/ search_fail

SpecHeap == InitHeap /\ [][NextHeap]_vars

(***************************************************************************)
(* The same search called twice on an unmodified Grid World.               *)
(***************************************************************************)
NextRepeat ==
    \/ \E s \in Cells(width, height), g \in Cells(width, height),
          t \in Times : search_begin(s, g, t)
    \/ search_found
    \/ search_expand
    \/ search_fail
    \/ search_repeat

SpecRepeat == InitSearch /\ [][NextRepeat]_vars

(***************************************************************************)
(* A search, one more dynamic obstacle, and the same search again.         *)
(***************************************************************************)
InitDynamic ==
    /\ width = Width /\ height = Height
    /\ \E W \in Worlds(Width, Height, MaxCalls) :
          grid = W[1] /\ dynamic_obstacles = W[2]
    /\ gw_start = None /\ gw_goal = None
    /\ ret = None
    /\ pc = "idle"
    /\ InitSearchLocals
    /\ InitDefaults

NextDynamic ==
    \/ \E s \in Cells(width, height), g \in Cells(width, height),
          t \in Times : search_begin(s, g, t)
    \/ search_found
    \/ search_expand
    \/ search_fail
    \/ \E c \in Cells(width, height), t \in Times :
          search_after_add_dynamic(c[1], c[2], t)

SpecDynamic == InitDynamic /\ [][NextDynamic]_vars

(***************************************************************************)
(* The snapshot file.  A line is the list of its whitespace-separated      *)
(* tokens; a token is <<"int", n>>, the decimal text of n, or              *)
(* <<"word", w>>, any other text.                                          *)
(***************************************************************************)
IntTok(n) == <<"int", n>>
WordTok(w) == <<"word", w>>

\* int(token) succeeds
is_int(tok) == tok[1] = "int"

\* str.isdigit: decimal digits only, so no sign
isdigit(tok) == tok[1] = "int" /\ tok[2] >= 0

is_word(tok, w) == tok[1] = "word" /\ tok[2] = w

\* the lines save_to_file writes for a Grid World
save_lines(w, h, g, st, gl) ==
    << <<IntTok(w), IntTok(h)>> >>
    \o (IF st # None
        THEN << <<WordTok("START"), IntTok(st[1]), IntTok(st[2])>> >>
        ELSE << >>)
    \o (IF gl # None
        THEN << <<WordTok("GOAL"), IntTok(gl[1]), IntTok(gl[2])>> >>
        ELSE << >>)
    \o [y \in 1..h |-> [x \in 1..w |-> IntTok(g[<<x - 1, y - 1>>])]]

Raised(kind) ==
    [error |-> TRUE, kind |-> kind, width |-> 0, height |-> 0,
     grid |-> << >>, start |-> None, goal |-> None]

\* the while loop of load_from_file over the START / GOAL lines, from the
\* line at index line_idx (0-based as in the code)
RECURSIVE header_loop(_, _, _, _)
header_loop(lines, line_idx, st, gl) ==
    IF ~(line_idx < Len(lines))
    THEN [kind |-> "", line_idx |-> line_idx, start |-> st, goal |-> gl]
    ELSE LET parts == lines[line_idx + 1]
         IN  IF parts = << >>
             THEN [kind |-> "IndexError", line_idx |-> line_idx,
                   start |-> st, goal |-> gl]
             ELSE IF isdigit(parts[1])
             THEN [kind |-> "", line_idx |-> line_idx,
                   start |-> st, goal |-> gl]
             ELSE IF is_word(parts[1], "START") \/ is_word(parts[1], "GOAL")
             THEN IF Len(parts) < 3
                  THEN [kind |-> "IndexError", line_idx |-> line_idx,
                        start |-> st, goal |-> gl]
                  ELSE IF ~is_int(parts[2]) \/ ~is_int(parts[3])
                  THEN [kind |-> "ValueError", line_idx |-> line_idx,
                        start |-> st, goal |-> gl]
                  ELSE IF is_word(parts[1], "START")
                  THEN header_loop(lines, line_idx + 1,
                                   <<parts[2][2], parts[3][2]>>, gl)
                  ELSE header_loop(lines, line_idx + 1, st,
                                   <<parts[2][2], parts[3][2]>>)
             ELSE header_loop(lines, line_idx + 1, st, gl)

\* the for loop of load_from_file over the rows, from row y on; g is the
\* grid so far, "ValueError" when a token of a row read is no integer
RECURSIVE load_rows(_, _, _, _, _, _)
load_rows(lines, line_idx, y, w, h, g) ==
    IF y >= h THEN [kind |-> "", grid |-> g]
    ELSE IF ~(line_idx + y < Len(lines))
    THEN load_rows(lines, line_idx, y + 1, w, h, g)
    ELSE LET row == lines[line_idx + y + 1]
             n == IF w < Len(row) THEN w ELSE Len(row)
         IN  IF \E i \in 1..Len(row) : ~is_int(row[i])
             THEN [kind |-> "ValueError", grid |-> g]
             ELSE load_rows(lines, line_idx, y + 1, w, h,
                            [c \in DOMAIN g |->
                                IF c[2] = y /\ c[1] < n
                                THEN row[c[1] + 1][2] ELSE g[c]])

\* what load_from_file returns, or the exception it raises
load_from_file(lines) ==
    IF lines = << >> THEN Raised("IndexError")
    ELSE IF Len(lines[1]) # 2 \/ \E i \in 1..Len(lines[1]) : ~is_int(lines[1][i])
    THEN Raised("ValueError")
    ELSE LET w == lines[1][1][2]
             h == lines[1][2][2]
         IN  IF w < 0 \/ h < 0 THEN Raised("ValueError")
             ELSE LET hd == header_loop(lines, 1, None, None)
                      rows == load_rows(lines, hd.line_idx, 0, w, h,
                                        [c \in Cells(w, h) |-> FREE])
                  IN  IF hd.kind # "" THEN Raised(hd.kind)
                      ELSE IF rows.kind # "" THEN Raised(rows.kind)
                      ELSE [error |-> FALSE, kind |-> "", width |-> w,
                            height |-> h, grid |-> rows.grid,
                            start |-> hd.start, goal |-> hd.goal]

\* GridWorld(w, h): np.zeros raises ValueError on a negative dimension
construct(w, h) ==
    /\ pc = "new"
    /\ IF w < 0 \/ h < 0
       THEN /\ pc' = "raised"
            /\ UNCHANGED <<width, height, grid>>
       ELSE /\ pc' = "config"
            /\ width' = w /\ height' = h
            /\ grid' = [c \in Cells(w, h) |-> FREE]
    /\ UNCHANGED <<gw_start, gw_goal, dynamic_obstacles, ret>>
    /\ UNCHANGED <<start, goal, current_time, open_set, closed_set,
                   all_nodes, nodes_expanded, result, prev_result, added,
                   self_heuristic>>
    /\ UNCHANGED iovars

save_to_file ==
    /\ pc = "config"
    /\ file' = save_lines(width, height, grid, gw_start, gw_goal)
    /\ pc' = "saved"
    /\ UNCHANGED loaded
    /\ UNCHANGED gridvars
    /\ UNCHANGED <<ret, start, goal, current_time, open_set, closed_set,
                   all_nodes, nodes_expanded, result, prev_result, added,
                   self_heuristic>>

\* the file loses its last line before it is read
drop_last_line ==
    /\ pc = "saved" /\ Len(file) >= 1
    /\ file' = SubSeq(file, 1, Len(file) - 1)
    /\ pc' = "damaged"
    /\ UNCHANGED loaded
    /\ UNCHANGED gridvars
    /\ UNCHANGED <<ret, start, goal, current_time, open_set, closed_set,
                   all_nodes, nodes_expanded, result, prev_result, added,
                   self_heuristic>>

\* line i of the file loses its last token before the file is read
drop_last_token(i) ==
    /\ pc = "saved" /\ i \in 1..Len(file) /\ Len(file[i]) >= 1
    /\ file' = [file EXCEPT ![i] = SubSeq(@, 1, Len(@) - 1)]
    /\ pc' = "damaged"
    /\ UNCHANGED loaded
    /\ UNCHANGED gridvars
    /\ UNCHANGED <<ret, start, goal, current_time, open_set, closed_set,
                   all_nodes, nodes_expanded, result, prev_result, added,
                   self_heuristic>>

call_load_from_file ==
    /\ pc \in {"saved", "damaged"}
    /\ loaded' = load_from_file(file)
    /\ pc' = "loaded"
    /\ UNCHANGED file
    /\ UNCHANGED gridvars
    /\ UNCHANGED <<ret, start, goal, current_time, open_set, closed_set,
                   all_nodes, nodes_expanded, result, prev_result, added,
                   self_heuristic>>

(***************************************************************************)
(* A Grid World is constructed, configured, saved and loaded again.        *)
(***************************************************************************)
InitSnapshot ==
    /\ width = 0 /\ height = 0 /\ grid = << >>
    /\ gw_start = None /\ gw_goal = None
    /\ dynamic_obstacles = << >>
    /\ ret = None
    /\ pc = "new"
    /\ InitSearchLocals
    /\ InitDefaults

NextSnapshot ==
    \/ \E w \in (-1)..Width, h \in (-1)..Height : construct(w, h)
    \/ /\ StaticCount < MaxCalls
       /\ \E c \in Probe(width, height) : add_static_obstacle(c[1], c[2])
    \/ \E s \in Probe(width, height), g \in Probe(width, height) :
          set_start_goal(s, g)
    \/ save_to_file
    \/ drop_last_line
    \/ \E i \in 1..Len(file) : drop_last_token(i)
    \/ call_load_from_file

SpecSnapshot == InitSnapshot /\ [][NextSnapshot]_vars

(***************************************************************************)
(* Reference definitions for the properties, independent of the code       *)
(* above.                                                                  *)
(***************************************************************************)
InGrid(c) == c \in Cells(width, height)

Adjacent(a, b) == Abs(a[1] - b[1]) + Abs(a[2] - b[2]) = 1

DynamicAt(c, t) ==
    t \in DOMAIN dynamic_obstacles /\ Contains(dynamic_obstacles[t], c)

\* c is an obstacle at time t: out of bounds, static, or dynamic at t
BlockedAt(c, t) == ~InGrid(c) \/ grid[c] = OBSTACLE \/ DynamicAt(c, t)

\* breadth-first levels over the cells that are not obstacles at time t
RECURSIVE BfsLevels(_, _, _, _, _)
BfsLevels(frontier, seen, d, target, t) ==
    IF target \in frontier THEN d
    ELSE LET next == {c \in Cells(width, height) :
                        /\ ~BlockedAt(c, t)
                        /\ c \notin seen
                        /\ \E f \in frontier : Adjacent(f, c)}
         IN  IF next = {} THEN INF
             ELSE BfsLevels(next, seen \cup next, d + 1, target, t)

\* cost of a shortest route of non-obstacle cells from s to g at time t,
\* INF when there is none
ShortestCost(s, g, t) ==
    IF BlockedAt(s, t) THEN INF ELSE BfsLevels({s}, {s}, 0, g, t)

Failure(r) == r.success = FALSE /\ r.path = << >> /\ r.cost = INF

NoDuplicates(seq) ==
    \A i \in 1..Len(seq), j \in 1..Len(seq) : seq[i] = seq[j] => i = j

(***************************************************************************)
(* C1: the cost search returns equals the shortest-path cost of a          *)
(* breadth-first reference over the cells that are not obstacles at        *)
(* current_time, and success is true exactly when the reference finds a    *)
(* route.                                                                  *)
(***************************************************************************)
C1_CostEqualsReference ==
    pc = "done" =>
        /\ result.success = (ShortestCost(start, goal, current_time) # INF)
        /\ result.success =>
              result.cost = ShortestCost(start, goal, current_time)

(***************************************************************************)
(* C2: a successful result has a path from start to goal whose consecutive *)
(* cells are 4-adjacent grid cells and whose length minus one is the cost. *)
(***************************************************************************)
C2_PathWellFormed ==
    (pc = "done" /\ result.success) =>
        /\ Len(result.path) >= 1
        /\ result.path[1] = start
        /\ result.path[Len(result.path)] = goal
        /\ \A i \in 1..(Len(result.path) - 1) :
              /\ InGrid(result.path[i])
              /\ InGrid(result.path[i + 1])
              /\ Adjacent(result.path[i], result.path[i + 1])
        /\ (Len(result.path) - 1) * 1 = result.cost

(***************************************************************************)
(* C3: when start equals goal, search returns success, the path [start],   *)
(* cost 0 and nodes_expanded 0.                                            *)
(***************************************************************************)
C3_StartIsGoal ==
    (pc = "done" /\ start = goal) =>
        result = [path |-> <<start>>, cost |-> 0, nodes_expanded |-> 0,
                  success |-> TRUE]

C3_Witness ==
    /\ pc = "done" /\ start = goal /\ InGrid(start)
    /\ result.success /\ result.nodes_expanded = 0

(***************************************************************************)
(* C4: when no route of non-obstacle cells leads from start to goal at     *)
(* current_time and start differs from goal, search returns failure with   *)
(* an empty path and cost +infinity; every failure has an empty path and   *)
(* cost +infinity.                                                         *)
(***************************************************************************)
C4_NoRouteFails ==
    pc = "done" =>
        /\ (start # goal /\ ShortestCost(start, goal, current_time) = INF)
              => Failure(result)
        /\ ~result.success => Failure(result)

(***************************************************************************)
(* C5: a search whose start or goal cell is an obstacle at current_time    *)
(* returns failure.                                                        *)
(***************************************************************************)
C5_ObstacleEndpointFails ==
    (/\ pc = "done"
     /\ \/ BlockedAt(start, current_time)
        \/ BlockedAt(goal, current_time))
        => Failure(result)

(***************************************************************************)
(* C6: a dynamic obstacle on cell c at time tb only: a search at tb never  *)
(* returns a path through c, and a search at any other time returns the    *)
(* path and cost it returns without that dynamic obstacle.                 *)
(***************************************************************************)
C6_DynamicOnlyAtItsTime ==
    (/\ pc = "done" /\ added # None
     /\ grid[<<added[1], added[2]>>] # OBSTACLE
     /\ \A t \in Times \ {added[3]} : ~DynamicAt(<<added[1], added[2]>>, t))
        => /\ current_time = added[3]
                => ~Contains(result.path, <<added[1], added[2]>>)
           /\ current_time # added[3]
                => /\ result.path = prev_result.path
                   /\ result.cost = prev_result.cost

C8_StoredCellsInBounds ==
    /\ \A c \in DOMAIN grid : grid[c] # FREE => InGrid(c)
    /\ \A t \in DOMAIN dynamic_obstacles :
          \A i \in 1..Len(dynamic_obstacles[t]) :
             InGrid(dynamic_obstacles[t][i])
    /\ gw_start # None => InGrid(gw_start)
    /\ gw_goal # None => InGrid(gw_goal)

(***************************************************************************)
(* C9: is_obstacle(x, y, time) is true exactly when (x, y) is out of       *)
(* bounds, or is a static obstacle, or is in dynamic_obstacles[time]; with *)
(* no entry for time no dynamic obstacle is active.                        *)
(***************************************************************************)
C9_IsObstacleExact ==
    (ret # None /\ ret.op = "is_obstacle") =>
        /\ ret.value = (\/ ~InGrid(<<ret.x, ret.y>>)
                        \/ grid[<<ret.x, ret.y>>] = OBSTACLE
                        \/ DynamicAt(<<ret.x, ret.y>>, ret.time))
        /\ (/\ InGrid(<<ret.x, ret.y>>)
            /\ grid[<<ret.x, ret.y>>] # OBSTACLE
            /\ ret.time \notin DOMAIN dynamic_obstacles)
              => ret.value = FALSE

C9_Witness ==
    /\ ret # None /\ ret.op = "is_obstacle"
    /\ InGrid(<<ret.x, ret.y>>)
    /\ ret.time \notin DOMAIN dynamic_obstacles
    /\ \E t \in DOMAIN dynamic_obstacles : DynamicAt(<<ret.x, ret.y>>, t)
    /\ ret.value = FALSE

C11_NeighborsHaveFiniteCost ==
    /\ (ret # None /\ ret.op = "get_terrain_cost") =>
          /\ ret.value = INF \/ (ret.value > 0 /\ ret.value < INF)
          /\ ret.value = INF =>
                \E t \in Times : BlockedAt(<<ret.x, ret.y>>, t)
    /\ (ret # None /\ ret.op = "get_neighbors") =>
          \A i \in 1..Len(ret.value) :
             get_terrain_cost(ret.value[i][1], ret.value[i][2]) # INF

\* a snapshot with an intact dimensions line whose body has fewer than height
\* rows, or a row with fewer than width codes
BodyRows(f) ==
    LET hdr == {i \in 2..Len(f) : f[i] # << >> /\ f[i][1][1] = "word"}
    IN  SubSeq(f, 2 + Cardinality(hdr), Len(f))

Malformed(f) ==
    /\ f # << >> /\ Len(f[1]) = 2
    /\ is_int(f[1][1]) /\ is_int(f[1][2])
    /\ LET w == f[1][1][2]
           h == f[1][2][2]
           body == BodyRows(f)
       IN  \/ Len(body) < h
           \/ \E i \in 1..Len(body) : i <= h /\ Len(body[i]) < w

\* C12: an invalid configuration never yields a Grid World: a constructed
\* grid has a positive width and height, and loading a snapshot with fewer
\* than height rows, or a row with fewer than width codes, ends in an error
\* instead of a grid with defaulted cells.
C12_InvalidConfigurationFails ==
    /\ pc \notin {"new", "raised"} => width > 0 /\ height > 0
    /\ (pc = "loaded" /\ Malformed(file)) => loaded.error

\* C13: round trip of the snapshot: load_from_file of the text written by
\* save_to_file yields the same width, height, start, goal and the same code
\* in every cell.
C13_RoundTrip ==
    (pc = "loaded"
       /\ file = save_lines(width, height, grid, gw_start, gw_goal)) =>
        /\ ~loaded.error
        /\ loaded.width = width /\ loaded.height = height
        /\ loaded.start = gw_start /\ loaded.goal = gw_goal
        /\ loaded.grid = grid

\* C14: every search call terminates: from every state inside the expansion
\* loop the call eventually returns, having popped the goal or emptied the
\* open set, for every start, goal, current_time and heuristic.
C14_Terminates ==
    (pc = "loop") ~>
        (pc = "done" /\ (result.success \/ open_set = << >>))

\* a call with a heuristic that is not admissible has returned a path more
\* expensive than the cheapest one
C14_Witness ==
    /\ pc = "done"
    /\ self_heuristic # "manhattan_distance"
    /\ result.success
    /\ result.cost > ShortestCost(start, goal, current_time)

\* C15: a popped entry whose cell is already closed is skipped, so no cell
\* is expanded twice: nodes_expanded equals the number of closed cells.
C15_ExpandedOnce ==
    nodes_expanded = Cardinality(closed_set)

\* C16: every pop returns an entry of minimum f_cost: the popped node's
\* f_cost is at most the f_cost of every entry left in the open set.
C16_PopIsMinimum ==
    (pc = "loop" /\ open_set # << >>) =>
        LET popped == heappop(open_set, all_nodes)
        IN  \A i \in 1..Len(popped.heap) :
               f_cost(all_nodes, popped.item)
                  <= f_cost(all_nodes, popped.heap[i])

\* C17: set_start_goal changes only the start and goal designation: is_obstacle
\* returns the same value for every cell and time before and after the call;
\* and add_static_obstacle leaves start and goal unchanged.
C17_FrameOfMutators ==
    [][ /\ (\E s \in Probe(width, height), g \in Probe(width, height) :
               set_start_goal(s, g)) =>
              \A c \in Probe(width, height), t \in Times :
                 is_obstacle(c[1], c[2], t)' = is_obstacle(c[1], c[2], t)
        /\ (\E c \in Probe(width, height) : add_static_obstacle(c[1], c[2])) =>
              gw_start' = gw_start /\ gw_goal' = gw_goal ]_vars

\* the parent links lead from cell p to start in at most k steps
RECURSIVE RootedAt(_, _)
RootedAt(p, k) ==
    IF p = start THEN TRUE
    ELSE IF k = 0 \/ p \notin DOMAIN all_nodes THEN FALSE
    ELSE RootedAt(all_nodes[p].parent, k - 1)

TreeRootedAtStart ==
    pc \in {"loop", "done"} =>
        /\ start \in DOMAIN all_nodes
        /\ all_nodes[start].g_cost = 0
        /\ all_nodes[start].parent = None
        /\ \A p \in DOMAIN all_nodes \ {start} :
              LET parent == all_nodes[p].parent
              IN  /\ parent \in closed_set
                  /\ parent \in DOMAIN all_nodes
                  /\ Adjacent(p, parent)
                  /\ all_nodes[p].g_cost =
                        Plus(all_nodes[parent].g_cost,
                             get_terrain_cost(p[1], p[2]))
                  /\ RootedAt(p, Cardinality(DOMAIN all_nodes))

ClosedNodesFrozen ==
    pc = "loop" =>
        \A p \in closed_set :
           /\ all_nodes'[p].g_cost = all_nodes[p].g_cost
           /\ all_nodes'[p].parent = all_nodes[p].parent

\* C18: in every state of a search call the node store is a tree rooted at
\* start: start has g_cost 0 and no parent, every other node has a closed,
\* 4-adjacent parent and g_cost = parent's g_cost + terrain cost of its own
\* cell; and the g_cost and parent of a closed cell never change.
C18_NodeStoreIsTree ==
    []TreeRootedAtStart /\ [][ClosedNodesFrozen]_vars

\* a cell's g_cost has been lowered in place: the open set holds it twice,
\* under a parent that is closed
C18_Witness ==
    /\ pc = "loop"
    /\ \E i, j \in 1..Len(open_set) :
          /\ i # j /\ open_set[i] = open_set[j]
          /\ all_nodes[open_set[i]].parent \in closed_set

====
